---- MODULE Spec2Model ----
(***************************************************************************)
(* A model of the BLE beacon scanner of ble_scanner.py and                 *)
(* ble_scanner_to_csv.py: the advertisement decoder (parse_ibeacon,        *)
(* parse_eddystone, parse_manufacturer_data, detection_callback) and the   *)
(* scan loop (run, cleanup, the signal handler).                           *)
(*                                                                         *)
(* Python values are modelled as follows.  bytes: a sequence of integers   *)
(* 0..255.  str produced by hex()/format()/join: a sequence of one-        *)
(* character strings, so that digits, case and hyphens are observable.     *)
(* dict: a function from keys (strings) to values; a key is present iff it *)
(* is in the DOMAIN.  None: the value None below.  An exception raised     *)
(* inside a try block: the value Raise, turned into None by Try, as the    *)
(* "except Exception: return None" clauses do.                             *)
(***************************************************************************)
EXTENDS Integers, Sequences, FiniteSets, TLC

VARIABLES
    variant,     \* which script runs: "console" (ble_scanner.py) or "csv" (ble_scanner_to_csv.py)
    op,          \* the decoder operation applied last
    arg,         \* its argument
    ret,         \* what it returned (detection_callback: what it wrote or printed)
    pc,          \* position of run()/cleanup()
    is_running,  \* BeaconScanner.is_running
    scanner,     \* BeaconScanner.scanner: "None" or "BleakScanner"
    scanning,    \* whether the BleakScanner is started
    misuse,      \* the last start()/stop() call made on a scanner in the wrong state, or "none"
    error_reported  \* whether an except clause of run() or cleanup() has printed an error

vars == <<variant, op, arg, ret, pc, is_running, scanner, scanning, misuse, error_reported>>
decoderVars == <<op, arg, ret>>
scanVars == <<pc, is_running, scanner, scanning, misuse, error_reported>>

-----------------------------------------------------------------------------
(* Bounds of the model *)

\* Most entries in a manufacturer-data or service-data mapping.
MaxEntries == 2
\* Most bytes a generated buffer carries past the longest frame minimum.
MaxExtra == 2

-----------------------------------------------------------------------------
(* Python built-ins *)

None == [None |-> TRUE]
Raise == [Exception |-> TRUE]

Min(a, b) == IF a < b THEN a ELSE b

\* data[a:b]: slicing clamps to the length and never raises.
Slice(data, a, b) == SubSeq(data, Min(a, Len(data)) + 1, Min(b, Len(data)))

\* data[a:]
SliceFrom(data, a) == SubSeq(data, Min(a, Len(data)) + 1, Len(data))

\* data[i] raises IndexError when i is past the end.
IndexRaises(data, i) == i >= Len(data)

HexLower == <<"0","1","2","3","4","5","6","7","8","9","a","b","c","d","e","f">>
HexUpper == <<"0","1","2","3","4","5","6","7","8","9","A","B","C","D","E","F">>

\* bytes.hex(): two lowercase digits per byte.
BytesHex(data) ==
    [i \in 1..(2 * Len(data)) |->
        LET byte == data[(i + 1) \div 2]
        IN  IF i % 2 = 1 THEN HexLower[(byte \div 16) + 1] ELSE HexLower[(byte % 16) + 1]]

RECURSIVE Digits(_, _)
\* The digits of n >= 0 in base 16, most significant first, no padding.
Digits(n, table) ==
    IF n < 16 THEN <<table[n + 1]>>
    ELSE Digits(n \div 16, table) \o <<table[(n % 16) + 1]>>

RECURSIVE ZeroPad(_, _)
ZeroPad(s, width) == IF Len(s) >= width THEN s ELSE ZeroPad(<<"0">> \o s, width)

\* hex(n) for n >= 0: "0x" and the lowercase digits, unpadded.
PyHex(n) == <<"0", "x">> \o Digits(n, HexLower)

\* FormatCompanyId with the format 04x: lowercase digits.
FormatCompanyId_lowercase(n) == <<"0", "x">> \o ZeroPad(Digits(n, HexLower), 4)

\* f"0x{n:04X}" for n >= 0: "0x" and the uppercase digits, zero-padded to 4.
FormatCompanyId(n) == <<"0", "x">> \o ZeroPad(Digits(n, HexUpper), 4)

RECURSIVE Join(_, _)
\* sep.join(parts)
Join(sep, parts) ==
    IF Len(parts) = 0 THEN <<>>
    ELSE IF Len(parts) = 1 THEN parts[1]
    ELSE parts[1] \o sep \o Join(sep, Tail(parts))

UpperLetters == <<"A","B","C","D","E","F","G","H","I","J","K","L","M",
                  "N","O","P","Q","R","S","T","U","V","W","X","Y","Z">>
LowerLetters == <<"a","b","c","d","e","f","g","h","i","j","k","l","m",
                  "n","o","p","q","r","s","t","u","v","w","x","y","z">>

\* str.lower()
Lower(s) ==
    [i \in 1..Len(s) |->
        IF \E k \in 1..26 : UpperLetters[k] = s[i]
        THEN LowerLetters[CHOOSE k \in 1..26 : UpperLetters[k] = s[i]]
        ELSE s[i]]

\* sub in s
Contains(s, sub) ==
    \E i \in 0..(Len(s) - Len(sub)) : SubSeq(s, i + 1, i + Len(sub)) = sub

\* dict.update(): the keys of b are written over those of a.
Update(a, b) ==
    [k \in (DOMAIN a) \cup (DOMAIN b) |-> IF k \in DOMAIN b THEN b[k] ELSE a[k]]

\* Truthiness of a parser's return value: None and {} are false.
Truthy(d) == d # None /\ DOMAIN d # {}

\* Try without the except clause: the exception leaves the method.
Try_without_except(result) == result

\* try: ... except Exception: return None
Try(result) == IF result = Raise THEN None ELSE result

-----------------------------------------------------------------------------
(* struct.unpack *)

RECURSIVE BigEndian(_)
\* The unsigned big-endian value of a byte string.
BigEndian(data) ==
    IF Len(data) = 0 THEN 0
    ELSE 256 * BigEndian(SubSeq(data, 1, Len(data) - 1)) + data[Len(data)]

RECURSIVE Pow2(_)
Pow2(n) == IF n = 0 THEN 1 ELSE 2 * Pow2(n - 1)

\* Two's complement reading of an unsigned value of the given width.
Signed(v, bits) == IF v >= Pow2(bits - 1) THEN v - Pow2(bits) ELSE v

\* struct.calcsize(fmt)
CalcSize(fmt) ==
    CASE fmt = "b" -> 1
      [] fmt = ">H" -> 2
      [] fmt = ">h" -> 2
      [] fmt = ">I" -> 4

\* struct.unpack raises struct.error unless the buffer has exactly the size of the format.
UnpackRaises(fmt, data) == Len(data) # CalcSize(fmt)

\* Unpack with format "B" where the code has "b": the byte read unsigned.
Unpack_unsigned_byte(fmt, data) ==
    CASE fmt = "b" -> BigEndian(data)
      [] fmt = ">H" -> BigEndian(data)
      [] fmt = ">h" -> Signed(BigEndian(data), 16)
      [] fmt = ">I" -> BigEndian(data)

\* struct.unpack(fmt, data)[0], for a buffer of the right size.
Unpack(fmt, data) ==
    CASE fmt = "b" -> Signed(BigEndian(data), 8)
      [] fmt = ">H" -> BigEndian(data)
      [] fmt = ">h" -> Signed(BigEndian(data), 16)
      [] fmt = ">I" -> BigEndian(data)

-----------------------------------------------------------------------------
(* Input samples *)

\* [ (a * i + b) % 256 for i in range(len) ]
Fill(len, a, b) == [i \in 1..len |-> (a * (i - 1) + b) % 256]

\* <<a, b>> pairs for Fill: constant and stepping byte patterns.
Patterns == {<<0, 0>>, <<0, 255>>, <<17, 200>>, <<64, 200>>}

\* A well-formed iBeacon payload: 02 15, a UUID, major 1, minor 2, tx power 0xC5.
IBeaconGood == <<2, 21, 226, 197, 109, 181, 223, 251, 72, 210, 176, 96, 208, 245, 167, 16, 150, 224, 0, 1, 0, 2, 197>>

\* Eddystone frames: a TLM frame, a UID frame and a URL frame.
TlmGood == <<32, 0, 11, 228, 12, 152, 0, 0, 0, 5, 0, 0, 5, 120>>
UidGood == <<0, 238, 160, 161, 162, 163, 164, 165, 166, 167, 168, 169, 1, 2, 3, 4, 5, 6>>
UrlGood == <<16, 244, 3, 103, 111, 111, 7>>

EddystoneUuid == <<"0","0","0","0","f","e","a","a","-","0","0","0","0","-","1","0","0","0","-","8","0","0","0","-","0","0","8","0","5","f","9","b","3","4","f","b">>
EddystoneUuidUpper == <<"0","0","0","0","F","E","A","A","-","0","0","0","0","-","1","0","0","0","-","8","0","0","0","-","0","0","8","0","5","F","9","B","3","4","F","B">>
BatteryUuid == <<"0","0","0","0","1","8","0","f","-","0","0","0","0","-","1","0","0","0","-","8","0","0","0","-","0","0","8","0","5","f","9","b","3","4","f","b">>
-----------------------------------------------------------------------------
(* The decoder *)

Variants == {"console", "csv"}

\* self.APPLE_COMPANY_ID = 0x004C
APPLE_COMPANY_ID == 76

\* The key under which a parser reports the beacon kind.
TypeKey(v) == IF v = "console" THEN "type" ELSE "beacon_type"

\* x / 256.0, kept exact as a fraction.
TrueDiv(num, den) == [num |-> num, den |-> den]

\* The length below which parse_ibeacon returns None.
IBEACON_MIN_LEN == 23

parse_ibeacon_body(v, mfg_data) ==
    IF Len(mfg_data) < IBEACON_MIN_LEN THEN None
    ELSE IF \/ UnpackRaises(">H", Slice(mfg_data, 18, 20))
            \/ UnpackRaises(">H", Slice(mfg_data, 20, 22))
            \/ UnpackRaises("b", Slice(mfg_data, 22, 23))
         THEN Raise
    ELSE LET uuid_bytes == Slice(mfg_data, 2, 18)
             major == Unpack(">H", Slice(mfg_data, 18, 20))
             minor == Unpack(">H", Slice(mfg_data, 20, 22))
             tx_power == Unpack("b", Slice(mfg_data, 22, 23))
         IN  Update([uuid |-> Join(<<"-">>, << BytesHex(Slice(uuid_bytes, 0, 4)),
                                              BytesHex(Slice(uuid_bytes, 4, 6)),
                                              BytesHex(Slice(uuid_bytes, 6, 8)),
                                              BytesHex(Slice(uuid_bytes, 8, 10)),
                                              BytesHex(Slice(uuid_bytes, 10, 16)) >>),
                     major |-> major,
                     minor |-> minor,
                     tx_power |-> tx_power,
                     raw_data |-> BytesHex(mfg_data)],
                    TypeKey(v) :> "iBeacon")

parse_ibeacon(v, mfg_data) == Try(parse_ibeacon_body(v, mfg_data))

FRAME_UID == 0
FRAME_URL == 16
FRAME_TLM == 32

Name_UID == <<"U", "I", "D">>
Name_URL == <<"U", "R", "L">>
Name_TLM == <<"T", "L", "M">>

\* parse_eddystone of ble_scanner.py, inside its try block.
parse_eddystone_console_body(service_data) ==
    IF IndexRaises(service_data, 0) THEN Raise
    ELSE LET frame_type == service_data[1]
             result == [type |-> "Eddystone",
                        frame_type |-> PyHex(frame_type),
                        raw_data |-> BytesHex(service_data)]
         IN  CASE frame_type = FRAME_UID ->
                    IF UnpackRaises("b", Slice(service_data, 1, 2)) THEN Raise
                    ELSE Update(result,
                           [frame_type_name |-> Name_UID,
                            tx_power |-> Unpack("b", Slice(service_data, 1, 2)),
                            namespace |-> BytesHex(Slice(service_data, 2, 12)),
                            instance |-> BytesHex(Slice(service_data, 12, 18))])
               [] frame_type = FRAME_URL ->
                    IF \/ UnpackRaises("b", Slice(service_data, 1, 2))
                       \/ IndexRaises(service_data, 2)
                    THEN Raise
                    ELSE Update(result,
                           [frame_type_name |-> Name_URL,
                            tx_power |-> Unpack("b", Slice(service_data, 1, 2)),
                            url_scheme |-> service_data[3],
                            encoded_url |-> BytesHex(SliceFrom(service_data, 3))])
               [] frame_type = FRAME_TLM ->
                    IF \/ IndexRaises(service_data, 1)
                       \/ UnpackRaises(">H", Slice(service_data, 2, 4))
                       \/ UnpackRaises(">h", Slice(service_data, 4, 6))
                       \/ UnpackRaises(">I", Slice(service_data, 6, 10))
                       \/ UnpackRaises(">I", Slice(service_data, 10, 14))
                    THEN Raise
                    ELSE Update(result,
                           [frame_type_name |-> Name_TLM,
                            version |-> service_data[2],
                            battery_voltage |-> Unpack(">H", Slice(service_data, 2, 4)),
                            temperature |-> TrueDiv(Unpack(">h", Slice(service_data, 4, 6)), 256),
                            advertising_count |-> Unpack(">I", Slice(service_data, 6, 10)),
                            seconds_since_boot |-> Unpack(">I", Slice(service_data, 10, 14))])
               [] OTHER -> result

\* parse_eddystone of ble_scanner_to_csv.py, inside its try block.
parse_eddystone_csv_body(service_data) ==
    IF IndexRaises(service_data, 0) THEN Raise
    ELSE LET frame_type == service_data[1]
             result == [beacon_type |-> "Eddystone",
                        frame_type |-> PyHex(frame_type),
                        raw_data |-> BytesHex(service_data)]
         IN  CASE frame_type = FRAME_UID ->
                    IF UnpackRaises("b", Slice(service_data, 1, 2)) THEN Raise
                    ELSE Update(result,
                           [frame_type |-> Name_UID,
                            tx_power |-> Unpack("b", Slice(service_data, 1, 2)),
                            namespace |-> BytesHex(Slice(service_data, 2, 12)),
                            instance |-> BytesHex(Slice(service_data, 12, 18))])
               [] frame_type = FRAME_URL ->
                    IF UnpackRaises("b", Slice(service_data, 1, 2)) THEN Raise
                    ELSE Update(result,
                           [frame_type |-> Name_URL,
                            tx_power |-> Unpack("b", Slice(service_data, 1, 2))])
               [] frame_type = FRAME_TLM ->
                    IF \/ UnpackRaises(">H", Slice(service_data, 2, 4))
                       \/ UnpackRaises(">h", Slice(service_data, 4, 6))
                    THEN Raise
                    ELSE Update(result,
                           [frame_type |-> Name_TLM,
                            battery_voltage |-> Unpack(">H", Slice(service_data, 2, 4)),
                            temperature |-> TrueDiv(Unpack(">h", Slice(service_data, 4, 6)), 256)])
               [] OTHER -> result

parse_eddystone(v, service_data) ==
    Try(IF v = "console" THEN parse_eddystone_console_body(service_data)
        ELSE parse_eddystone_csv_body(service_data))

\* mfg_entry with result = {} moved inside the loop: every entry starts a new record.
mfg_entry_fresh_record(v, result, company_id, data) ==
    LET withId == [company_id |-> FormatCompanyId(company_id)]
    IN  IF company_id = APPLE_COMPANY_ID
        THEN LET ibeacon_data == parse_ibeacon(v, data)
             IN  IF ibeacon_data = Raise THEN Raise
                 ELSE IF Truthy(ibeacon_data) THEN Update(withId, ibeacon_data)
                 ELSE withId
        ELSE Update(withId, [raw_data |-> BytesHex(data)])

\* One iteration of the loop of parse_manufacturer_data over mfg_data.items().
\* The method has no try block: an exception out of parse_ibeacon would leave it.
mfg_entry(v, result, company_id, data) ==
    LET withId == Update(result, [company_id |-> FormatCompanyId(company_id)])
    IN  IF company_id = APPLE_COMPANY_ID
        THEN LET ibeacon_data == parse_ibeacon(v, data)
             IN  IF ibeacon_data = Raise THEN Raise
                 ELSE IF Truthy(ibeacon_data) THEN Update(withId, ibeacon_data)
                 ELSE withId
        ELSE Update(withId, [raw_data |-> BytesHex(data)])

RECURSIVE mfg_loop(_, _, _)
\* The loop run over the entries in insertion order, from the record built so far.
mfg_loop(v, result, items) ==
    IF Len(items) = 0 \/ result = Raise THEN result
    ELSE mfg_loop(v, mfg_entry(v, result, items[1].company_id, items[1].data), Tail(items))

\* mfg_data: the mapping as the sequence of its items, in insertion order.
parse_manufacturer_data(v, mfg_data) == mfg_loop(v, <<>>, mfg_data)

\* "feaa" in str(uuid).lower()
IsEddystoneUuid(uuid) == Contains(Lower(uuid), <<"f", "e", "a", "a">>)

\* The fields detection_callback of ble_scanner_to_csv.py takes from the device;
\* the device and the clock are outside the decoder and kept fixed.
base_beacon_data ==
    [timestamp |-> "now", device_address |-> "addr", device_name |-> "Unknown",
     rssi |-> -60, service_uuids |-> <<>>]

RECURSIVE csv_service_loop(_, _)
\* The loop of the csv detection_callback over service_data.items().
csv_service_loop(beacon_data, items) ==
    IF Len(items) = 0 THEN beacon_data
    ELSE LET eddystone_data == parse_eddystone("csv", items[1].data)
         IN  csv_service_loop(
                 IF IsEddystoneUuid(items[1].uuid)
                 THEN IF Truthy(eddystone_data)
                      THEN Update(beacon_data, eddystone_data)
                      ELSE beacon_data
                 ELSE beacon_data,
                 Tail(items))

\* detection_callback of ble_scanner_to_csv.py: the beacon_data it hands to write_to_csv.
detection_callback_csv(adv) ==
    LET mfg_info == parse_manufacturer_data("csv", adv.manufacturer_data)
        afterMfg == IF Len(adv.manufacturer_data) > 0
                    THEN Update(base_beacon_data, mfg_info)
                    ELSE base_beacon_data
    IN  csv_service_loop(afterMfg, adv.service_data)

RECURSIVE console_service_loop(_)
\* The loop of the console detection_callback over service_data.items(): the dictionaries
\* whose items it prints, in order.
console_service_loop(items) ==
    IF Len(items) = 0 THEN <<>>
    ELSE LET eddystone_data == parse_eddystone("console", items[1].data)
             printed == IF IsEddystoneUuid(items[1].uuid)
                        THEN IF Truthy(eddystone_data) THEN <<eddystone_data>> ELSE <<>>
                        ELSE <<[data |-> BytesHex(items[1].data)]>>
         IN  printed \o console_service_loop(Tail(items))

\* detection_callback of ble_scanner.py: the dictionaries whose items it prints, in order.
detection_callback_console(adv) ==
    (IF Len(adv.manufacturer_data) > 0
     THEN <<parse_manufacturer_data("console", adv.manufacturer_data)>>
     ELSE <<>>)
    \o console_service_loop(adv.service_data)

detection_callback(v, adv) ==
    IF v = "console" THEN detection_callback_console(adv) ELSE detection_callback_csv(adv)

\* Buffer lengths up to the longest frame minimum and a little past it.
MaxLen == IBEACON_MIN_LEN + MaxExtra

\* Buffers handed to parse_ibeacon: every length 0..MaxLen in every pattern, and
\* the well-formed payload, bare and with trailing bytes.
MfgBuffers ==
    {Fill(len, p[1], p[2]) : len \in 0..MaxLen, p \in Patterns}
    \cup {IBeaconGood, IBeaconGood \o <<9, 9>>, <<255, 255>> \o Tail(Tail(IBeaconGood))}

\* The first bytes of the service-data buffers: the three frame types and two others.
FrameTypeBytes == {FRAME_UID, FRAME_URL, FRAME_TLM, 48, 255}

\* The model checker's integers are 32-bit signed: a buffer whose 32-bit
\* big-endian fields (offsets 6 and 10) would not fit is left out.
Fits32(data) == \A off \in {6, 10} : Len(data) > off => data[off + 1] < 128

\* Buffers handed to parse_eddystone: every length 0..MaxLen, every first byte.
SvcBuffers ==
    {<<>>, TlmGood, UidGood, UrlGood}
    \cup { d \in { [Fill(len, p[1], p[2]) EXCEPT ![1] = ft] :
                     len \in 1..MaxLen, p \in Patterns, ft \in FrameTypeBytes } :
           Fits32(d) }

\* Company identifiers: Apple, the unused GOOGLE_COMPANY_ID, and others.
CompanyIds == {APPLE_COMPANY_ID, 170, 2457, 65535}

MapBuffers == {<<>>, Fill(3, 17, 200), Fill(22, 17, 200), IBeaconGood, Fill(24, 0, 255)}

MfgEntries == [company_id : CompanyIds, data : MapBuffers]

RECURSIVE MfgMaps(_, _)
\* The mappings of at most n entries over E, as item sequences with distinct keys.
MfgMaps(E, n) ==
    IF n = 0 THEN {<<>>}
    ELSE LET prev == MfgMaps(E, n - 1)
         IN  prev \cup { Append(m, e) : <<m, e>> \in
                           { x \in prev \X E :
                               /\ Len(x[1]) = n - 1
                               /\ \A i \in 1..Len(x[1]) : x[1][i].company_id # x[2].company_id } }

RECURSIVE SvcMaps(_, _)
SvcMaps(E, n) ==
    IF n = 0 THEN {<<>>}
    ELSE LET prev == SvcMaps(E, n - 1)
         IN  prev \cup { Append(m, e) : <<m, e>> \in
                           { x \in prev \X E :
                               /\ Len(x[1]) = n - 1
                               /\ \A i \in 1..Len(x[1]) : x[1][i].uuid # x[2].uuid } }

\* Advertisements delivered to detection_callback.
AdvMfgEntries == [company_id : {APPLE_COMPANY_ID, 2457}, data : {Fill(3, 17, 200), IBeaconGood}]
AdvSvcEntries == [uuid : {EddystoneUuid, EddystoneUuidUpper, BatteryUuid},
                  data : {UidGood, <<0>>, TlmGood, <<>>}]

Advs == [manufacturer_data : MfgMaps(AdvMfgEntries, MaxEntries),
         service_data : SvcMaps(AdvSvcEntries, MaxEntries)]

\* The advertisements the scan loop's scanner delivers: those of at most one entry each.
ScanAdvs == {adv \in Advs : Len(adv.manufacturer_data) <= 1 /\ Len(adv.service_data) <= 1}

-----------------------------------------------------------------------------
(* Decoder operations, applied to the inputs above.  The decoder keeps no   *)
(* state between calls (its methods read only APPLE_COMPANY_ID), so a      *)
(* behaviour of Spec applies one operation to one input.                   *)

Init ==
    /\ variant \in Variants
    /\ op = "none"
    /\ arg = <<>>
    /\ ret = None
    /\ pc = "create"
    /\ is_running = TRUE
    /\ scanner = "None"
    /\ scanning = FALSE
    /\ misuse = "none"
    /\ error_reported = FALSE

CallParseIbeacon ==
    /\ op = "none"
    /\ \E data \in MfgBuffers :
        /\ op' = "parse_ibeacon"
        /\ arg' = data
        /\ ret' = parse_ibeacon(variant, data)
        /\ UNCHANGED <<variant, scanVars>>

CallParseEddystone ==
    /\ op = "none"
    /\ \E data \in SvcBuffers :
        /\ op' = "parse_eddystone"
        /\ arg' = data
        /\ ret' = parse_eddystone(variant, data)
        /\ UNCHANGED <<variant, scanVars>>

CallParseManufacturerData ==
    /\ op = "none"
    /\ \E mfg_data \in MfgMaps(MfgEntries, MaxEntries) :
        /\ op' = "parse_manufacturer_data"
        /\ arg' = mfg_data
        /\ ret' = parse_manufacturer_data(variant, mfg_data)
        /\ UNCHANGED <<variant, scanVars>>

CallDetectionCallback ==
    /\ op = "none"
    /\ \E adv \in Advs :
        /\ op' = "detection_callback"
        /\ arg' = adv
        /\ ret' = detection_callback(variant, adv)
        /\ UNCHANGED <<variant, scanVars>>

Next ==
    \/ CallParseIbeacon
    \/ CallParseEddystone
    \/ CallParseManufacturerData
    \/ CallDetectionCallback

Spec == Init /\ [][Next]_vars

-----------------------------------------------------------------------------
(* The scan loop: run(), cleanup() and the signal handler *)

CleanupPcs == {"cleanup", "cleanup_stop", "done"}

\* What a start() call does to the record of misuse.
AfterStart == IF scanning THEN "start_when_started" ELSE misuse

\* What a stop() call does to the record of misuse.
AfterStop == IF scanning THEN misuse ELSE "stop_when_stopped"

\* self.scanner = BleakScanner(self.detection_callback)
CreateScanner ==
    /\ pc = "create"
    /\ scanner' = "BleakScanner"
    /\ pc' = "while"
    /\ UNCHANGED <<variant, decoderVars, is_running, scanning, misuse, error_reported>>

\* The constructor raises: except prints, finally runs cleanup with scanner still None.
CreateScannerRaises ==
    /\ pc = "create"
    /\ pc' = "cleanup"
    /\ error_reported' = TRUE
    /\ UNCHANGED <<variant, decoderVars, is_running, scanner, scanning, misuse>>

\* while self.is_running:
LoopTest ==
    /\ pc = "while"
    /\ pc' = IF is_running THEN "start" ELSE "cleanup"
    /\ UNCHANGED <<variant, decoderVars, is_running, scanner, scanning, misuse, error_reported>>

\* await self.scanner.start()
StartScanner ==
    /\ pc = "start"
    /\ scanning' = TRUE
    /\ misuse' = AfterStart
    /\ pc' = "sleep"
    /\ UNCHANGED <<variant, decoderVars, is_running, scanner, error_reported>>

\* start() raises (the adapter is off or refused): except prints, finally runs cleanup.
StartScannerRaises ==
    /\ pc = "start"
    /\ misuse' = AfterStart
    /\ pc' = "cleanup"
    /\ error_reported' = TRUE
    /\ UNCHANGED <<variant, decoderVars, is_running, scanner, scanning>>

\* await asyncio.sleep(5)
Sleep ==
    /\ pc = "sleep"
    /\ pc' = "if"
    /\ UNCHANGED <<variant, decoderVars, is_running, scanner, scanning, misuse, error_reported>>

\* if self.is_running:
StopTest ==
    /\ pc = "if"
    /\ pc' = IF is_running THEN "stop" ELSE "while"
    /\ UNCHANGED <<variant, decoderVars, is_running, scanner, scanning, misuse, error_reported>>

\* await self.scanner.stop(), in the loop
StopScanner ==
    /\ pc = "stop"
    /\ scanning' = FALSE
    /\ misuse' = AfterStop
    /\ pc' = "while"
    /\ UNCHANGED <<variant, decoderVars, is_running, scanner, error_reported>>

\* Cleanup without its call of scanner.stop().
Cleanup_without_stop ==
    /\ pc = "cleanup"
    /\ pc' = "done"
    /\ UNCHANGED <<variant, decoderVars, is_running, scanner, scanning, misuse, error_reported>>

\* cleanup(): if self.scanner:
Cleanup ==
    /\ pc = "cleanup"
    /\ pc' = IF scanner # "None" THEN "cleanup_stop" ELSE "done"
    /\ UNCHANGED <<variant, decoderVars, is_running, scanner, scanning, misuse, error_reported>>

\* cleanup(): await self.scanner.stop(); self.is_running = False
CleanupStop ==
    /\ pc = "cleanup_stop"
    /\ scanning' = FALSE
    /\ misuse' = AfterStop
    /\ is_running' = FALSE
    /\ pc' = "done"
    /\ UNCHANGED <<variant, decoderVars, scanner, error_reported>>

\* cleanup(): stop() raises on a scanner that is not started, and the except clause
\* prints: is_running is left as it is.
CleanupStopRaises ==
    /\ pc = "cleanup_stop"
    /\ ~scanning
    /\ misuse' = AfterStop
    /\ pc' = "done"
    /\ error_reported' = TRUE
    /\ UNCHANGED <<variant, decoderVars, is_running, scanner, scanning>>

\* signal_handler: scanner.is_running = False, at any point while the program runs.
SignalHandler ==
    /\ pc # "done"
    /\ is_running' = FALSE
    /\ UNCHANGED <<variant, decoderVars, pc, scanner, scanning, misuse, error_reported>>

\* The started scanner delivers an advertisement while run() or cleanup() is
\* suspended in an await.
Deliver ==
    /\ scanning
    /\ pc \in {"sleep", "stop", "cleanup_stop"}
    /\ \E adv \in ScanAdvs :
        /\ op' = "detection_callback"
        /\ arg' = adv
        /\ ret' = detection_callback(variant, adv)
    /\ UNCHANGED <<variant, scanVars>>

RunStep ==
    \/ CreateScanner
    \/ CreateScannerRaises
    \/ LoopTest
    \/ StartScanner
    \/ StartScannerRaises
    \/ Sleep
    \/ StopTest
    \/ StopScanner
    \/ Cleanup
    \/ CleanupStop
    \/ CleanupStopRaises

ScanNext == RunStep \/ SignalHandler \/ Deliver

\* The event loop keeps running run() and cleanup(): each of their steps is
\* eventually taken.  Signals and advertisements may or may not arrive.
ScanSpec == Init /\ [][ScanNext]_vars /\ WF_vars(RunStep)

-----------------------------------------------------------------------------
(* Properties *)

\* The hexadecimal digits as the properties state them.
LowerDigit(n) ==
    CASE n = 0 -> "0" [] n = 1 -> "1" [] n = 2 -> "2" [] n = 3 -> "3"
      [] n = 4 -> "4" [] n = 5 -> "5" [] n = 6 -> "6" [] n = 7 -> "7"
      [] n = 8 -> "8" [] n = 9 -> "9" [] n = 10 -> "a" [] n = 11 -> "b"
      [] n = 12 -> "c" [] n = 13 -> "d" [] n = 14 -> "e" [] n = 15 -> "f"

UpperDigit(n) ==
    CASE n < 10 -> LowerDigit(n)
      [] n = 10 -> "A" [] n = 11 -> "B" [] n = 12 -> "C"
      [] n = 13 -> "D" [] n = 14 -> "E" [] n = 15 -> "F"

\* s is the lowercase hex encoding of data: digit 2k-1 is the high nibble of
\* byte k and digit 2k its low nibble.
IsHexOf(s, data) ==
    /\ Len(s) = 2 * Len(data)
    /\ \A k \in 1..Len(data) :
        /\ s[2 * k - 1] = LowerDigit(data[k] \div 16)
        /\ s[2 * k] = LowerDigit(data[k] % 16)

\* s is "0x" followed by the four uppercase hex digits of the 16-bit value n.
IsCompanyIdOf(s, n) ==
    /\ Len(s) = 6
    /\ s[1] = "0" /\ s[2] = "x"
    /\ s[3] = UpperDigit((n \div 4096) % 16)
    /\ s[4] = UpperDigit((n \div 256) % 16)
    /\ s[5] = UpperDigit((n \div 16) % 16)
    /\ s[6] = UpperDigit(n % 16)

IBeaconKeys == {"uuid", "major", "minor", "tx_power"}

\* The record carries no iBeacon result.
NoIBeaconResult(record) ==
    /\ IBeaconKeys \cap DOMAIN record = {}
    /\ TypeKey(variant) \notin DOMAIN record

\* C1: a payload shorter than 23 bytes under company ID 0x004C gives a record
\* with no iBeacon result whose raw_data is present and is the hex encoding of
\* the payload.
C1_ShortAppleKeepsRawHex ==
    (/\ op = "parse_manufacturer_data"
     /\ Len(arg) = 1
     /\ arg[1].company_id = 76
     /\ Len(arg[1].data) < 23)
    => /\ NoIBeaconResult(ret)
       /\ "raw_data" \in DOMAIN ret
       /\ IsHexOf(ret.raw_data, arg[1].data)

\* An entry whose payload parse_ibeacon decodes.
Decodes(entry) == entry.company_id = 76 /\ Len(entry.data) >= 23

\* An entry that writes raw_data: every entry but an undecodable Apple one.
WritesRaw(entry) == entry.company_id # 76 \/ Len(entry.data) >= 23

Last(s) == s[Len(s)]

Max(S) == CHOOSE x \in S : \A y \in S : y <= x

\* The iBeacon fields of the record are those of the payload: bytes 2..17 as
\* the hyphenated lowercase uuid (8-4-4-4-12 digits), bytes 18..19 and 20..21
\* as unsigned big-endian major and minor, byte 22 as signed tx power.
IsIBeaconOf(record, data) ==
    /\ TypeKey(variant) \in DOMAIN record
    /\ record[TypeKey(variant)] = "iBeacon"
    /\ IBeaconKeys \subseteq DOMAIN record
    /\ Len(record.uuid) = 36
    /\ \A p \in {9, 14, 19, 24} : record.uuid[p] = "-"
    /\ \A j \in 0..31 :
         LET hyphens == Cardinality({g \in {8, 12, 16, 20} : j >= g})
             byte == data[3 + (j \div 2)]
         IN  record.uuid[j + 1 + hyphens] =
                 LowerDigit(IF j % 2 = 0 THEN byte \div 16 ELSE byte % 16)
    /\ record.major = 256 * data[19] + data[20]
    /\ record.minor = 256 * data[21] + data[22]
    /\ record.tx_power = (IF data[23] >= 128 THEN data[23] - 256 ELSE data[23])

FrameMinLen(frame_type) ==
    CASE frame_type = 0 -> 18
      [] frame_type = 16 -> 3
      [] frame_type = 32 -> 14

\* C3: an Eddystone buffer shorter than the minimum of its frame type (UID 18,
\* URL 3, TLM 14) gives no result.
C3_ShortFrameNoResult ==
    (/\ op = "parse_eddystone"
     /\ Len(arg) >= 1
     /\ arg[1] \in {0, 16, 32}
     /\ Len(arg) < FrameMinLen(arg[1]))
    => ret = None

\* C4: for a buffer of at least 23 bytes parse_ibeacon returns the uuid, major,
\* minor and tx power of bytes 2..22; the well-formed payload gives
\* e2c56db5-dffb-48d2-b060-d0f5a71096e0, 1, 2, -59; and buffers that agree on
\* bytes 2..22 give the same four fields.
C4_IBeaconDecode ==
    (op = "parse_ibeacon" /\ Len(arg) >= 23)
    => /\ ret # None
       /\ IsIBeaconOf(ret, arg)
       /\ (SubSeq(arg, 3, 23) = SubSeq(IBeaconGood, 3, 23)
           => /\ ret.uuid = <<"e","2","c","5","6","d","b","5","-","d","f","f","b","-",
                              "4","8","d","2","-","b","0","6","0","-",
                              "d","0","f","5","a","7","1","0","9","6","e","0">>
              /\ ret.major = 1
              /\ ret.minor = 2
              /\ ret.tx_power = -59)
       /\ \A other \in MfgBuffers :
            (Len(other) >= 23 /\ SubSeq(other, 3, 23) = SubSeq(arg, 3, 23))
            => LET r == parse_ibeacon(variant, other)
               IN  \A k \in IBeaconKeys : r[k] = ret[k]

C4_Witness ==
    /\ op = "parse_ibeacon"
    /\ arg = IBeaconGood \o <<9, 9>>
    /\ ret # None
    /\ ret.tx_power = -59
    /\ ret.major = 1

TlmKeys == {"version", "battery_voltage", "temperature", "advertising_count",
            "seconds_since_boot"}

\* C5: for a buffer of at least 14 bytes whose byte 0 is 0x20, parse_eddystone
\* returns all five TLM fields: version (byte 1), battery voltage (unsigned
\* 16-bit at 2), temperature (signed 16-bit at 4, over 256), advertising count
\* (unsigned 32-bit at 6) and seconds since boot (unsigned 32-bit at 10).
C5_TlmAllFive ==
    (op = "parse_eddystone" /\ Len(arg) >= 14 /\ arg[1] = 32)
    => /\ ret # None
       /\ TlmKeys \subseteq DOMAIN ret
       /\ ret.version = arg[2]
       /\ ret.battery_voltage = 256 * arg[3] + arg[4]
       /\ ret.temperature.den = 256
       /\ ret.temperature.num =
              (IF arg[5] >= 128 THEN 256 * arg[5] + arg[6] - 65536 ELSE 256 * arg[5] + arg[6])
       /\ ret.advertising_count =
              16777216 * arg[7] + 65536 * arg[8] + 256 * arg[9] + arg[10]
       /\ ret.seconds_since_boot =
              16777216 * arg[11] + 65536 * arg[12] + 256 * arg[13] + arg[14]

\* C6: parse_ibeacon, parse_eddystone and parse_manufacturer_data return on
\* every input, empty buffers included: None or a dictionary, never an
\* exception.
C6_NeverRaises ==
    /\ op \in {"parse_ibeacon", "parse_eddystone"} =>
          /\ ret # Raise
          /\ (ret = None \/ "raw_data" \in DOMAIN ret)
    /\ op = "parse_manufacturer_data" =>
          /\ ret # Raise
          /\ ret # None
          /\ (Len(arg) = 0 <=> DOMAIN ret = {})

\* The empty service-data buffer: service_data[0] raises IndexError, which the
\* except clause turns into None.
C6_Witness ==
    /\ op = "parse_eddystone"
    /\ arg = <<>>
    /\ ret = None

C8_CompanyIdPresent ==
    (op = "parse_manufacturer_data" /\ Len(arg) >= 1)
    => /\ "company_id" \in DOMAIN ret
       /\ IsCompanyIdOf(ret.company_id, Last(arg).company_id)

\* The last entry is an Apple payload that does not decode.
C8_Witness ==
    /\ op = "parse_manufacturer_data"
    /\ Len(arg) = 2
    /\ Last(arg).company_id = 76
    /\ Len(Last(arg).data) = 22
    /\ ret.company_id = <<"0", "x", "0", "0", "4", "C">>

\* C9: start() and stop() strictly alternate: stop() is never called on a
\* scanner that is not started, nor start() on one that is.  Stated of the
\* runs in which every call of the scanner returns, where only the signal
\* decides the order of the calls.
C9_StartStopAlternate == error_reported \/ misuse = "none"

\* From cleanup on, the program stays in cleanup and does not start the scanner.
NoRestart == (pc \in CleanupPcs) => (pc' \in CleanupPcs /\ (scanning' => scanning))

\* C10: once is_running is False, run() ends with cleanup done and the scanner
\* stopped; and once the loop condition has seen is_running False (run() has
\* reached cleanup), the program never goes back to start the scanner.
C10_ShutdownCompletes ==
    /\ (is_running = FALSE) ~> (pc = "done" /\ scanning = FALSE)
    /\ [][NoRestart]_vars

\* A signal arrived while the scanner was started: the loop has been left with
\* the scanner still started and cleanup is about to stop it.
C10_Witness ==
    /\ pc = "cleanup_stop"
    /\ is_running = FALSE
    /\ scanning = TRUE

====
